---- MODULE Spec2Model ----
(***************************************************************************)
(* Typed wrappers over port-mapped I/O (src/src/lib.rs).                   *)
(*                                                                         *)
(* lib.rs defines the three wrapper shapes ReadOnlyPort, WriteOnlyPort and *)
(* ReadWritePort and the PortReadWrite impls.  The primitive layer (mod    *)
(* rw: PortAddress, PortRead, PortWrite and their per-width impls) is not  *)
(* part of the sources at hand; it is modelled after the specification as  *)
(* a simulated port space that records every primitive access.            *)
(***************************************************************************)
EXTENDS Integers, Sequences, FiniteSets

VARIABLES
    wrappers,   \* slot -> the wrapper value held there, or NoPort
    ports,      \* simulated port space: address -> value latched on the port
    log,        \* issuance log of the primitive layer, oldest first
    calls,      \* history: the wrapper read()/write() calls, oldest first
    given,      \* history: slot -> the address handed to new() for that value
    cloneOf,    \* history: slot -> the slot it was cloned from, or 0
    ret         \* the last operation performed and what it returned

vars == <<wrappers, ports, log, calls, given, cloneOf, ret>>

----------------------------------------------------------------------------
(* Bounds *)

\* Number of read()/write() calls in a behaviour.
MaxCalls == 3

\* The wrapper values a behaviour holds, named in order of creation.
Slots == {1, 2}

\* Port addresses tried (PortAddress values).
Addrs == {1016, 1017}         \* 0x3F8, 0x3F9

\* Type names offered as the parameter T.
Types == {"u8", "u16", "u32", "u64", "i8", "bool"}

\* Values written, per type.
Values(ty) ==
    CASE ty = "u8"  -> {1, 2, 65}            \* 0x41
      [] ty = "u16" -> {321}                 \* 0x141
      [] ty = "u32" -> {65601}               \* 0x10041
      [] OTHER      -> {}

\* Values a port may hold before anything is written to it.
PowerOn == {0, 255}

\* An empty slot, and the entry of `given` for it (one past the largest u16).
NoPort == [shape |-> "none"]
NoAddr == 2 ^ 16

----------------------------------------------------------------------------
(* Primitive layer: mod rw *)

\* Width in bits of a type.
Bits(ty) ==
    CASE ty = "u8"  -> 8
      [] ty = "u16" -> 16
      [] ty = "u32" -> 32
      [] ty = "u64" -> 64
      [] ty = "i8"  -> 8
      [] OTHER      -> 1

Unsigned(ty) == ty \in {"u8", "u16", "u32", "u64"}

\* The types with a PortRead impl, and those with a PortWrite impl.
ImplPortRead == {"u8", "u16", "u32"}
ImplPortWrite == {"u8", "u16", "u32"}

\* What an `in` of the width of ty latches from a port holding v.  Every
\* value of the model is below 2^31, so 32 bits and more keep v whole.
Latch(ty, v) == IF Bits(ty) >= 31 THEN v ELSE v % (2 ^ Bits(ty))

\* <T as PortRead>::read(port): one input instruction; hw is the hardware,
\* [ports, log].  Yields the value and the hardware afterwards.
PortRead_read(ty, port, hw) ==
    LET v == Latch(ty, hw.ports[port])
    IN  [value |-> v,
         hw |-> [ports |-> hw.ports,
                 log |-> Append(hw.log, [kind |-> "read", ty |-> ty,
                                         address |-> port, value |-> v])]]

\* <T as PortWrite>::write(port, value): one output instruction.
PortWrite_write(ty, port, value, hw) ==
    [value |-> 0,
     hw |-> [ports |-> [hw.ports EXCEPT ![port] = value],
             log |-> Append(hw.log, [kind |-> "write", ty |-> ty,
                                     address |-> port, value |-> value])]]

----------------------------------------------------------------------------
(* Capabilities *)

\* Mutants of ImplPortReadWrite: an impl left out, and one impl too many.
ImplPortReadWrite_NoU32 == {"u8", "u16"}
ImplPortReadWrite_WithU64 == {"u8", "u16", "u32", "u64"}

\* impl PortReadWrite for u8 / u16 / u32.
ImplPortReadWrite == {"u8", "u16", "u32"}

Shapes == {"ReadOnlyPort", "WriteOnlyPort", "ReadWritePort"}

\* The bound on T in each struct and impl header:
\* ReadOnlyPort<T: PortRead>, WriteOnlyPort<T: PortWrite>,
\* ReadWritePort<T: PortReadWrite>.
TraitBound(shape, ty) ==
    CASE shape = "ReadOnlyPort"  -> ty \in ImplPortRead
      [] shape = "WriteOnlyPort" -> ty \in ImplPortWrite
      [] shape = "ReadWritePort" -> ty \in ImplPortReadWrite
      [] OTHER                   -> FALSE

\* Mutant of Exposes: every shape has both read and write.
Exposes_All(shape) ==
    IF shape \in Shapes THEN {"address", "read", "write"} ELSE {}

\* The methods each impl block defines besides new.
Exposes(shape) ==
    CASE shape = "ReadOnlyPort"  -> {"address", "read"}
      [] shape = "WriteOnlyPort" -> {"address", "write"}
      [] shape = "ReadWritePort" -> {"address", "read", "write"}
      [] OTHER                   -> {}

----------------------------------------------------------------------------
(* ReadOnlyPort *)

ReadOnlyPort_new(ty, address) ==
    [shape |-> "ReadOnlyPort", ty |-> ty, address |-> address,
     marker |-> "PhantomData"]

ReadOnlyPort_address(self) == self.address

\* Mutant of ReadOnlyPort_read: reads the neighbouring port.
ReadOnlyPort_read_Neighbour(self, hw) ==
    PortRead_read(self.ty,
                  CHOOSE b \in Addrs : b # ReadOnlyPort_address(self), hw)

ReadOnlyPort_read(self, hw) ==
    PortRead_read(self.ty, ReadOnlyPort_address(self), hw)

(* WriteOnlyPort *)

\* Mutant of WriteOnlyPort_new: keeps the low byte of the address only.
WriteOnlyPort_new_Narrow(ty, address) ==
    [shape |-> "WriteOnlyPort", ty |-> ty, address |-> address % 256,
     marker |-> "PhantomData"]

WriteOnlyPort_new(ty, address) ==
    [shape |-> "WriteOnlyPort", ty |-> ty, address |-> address,
     marker |-> "PhantomData"]

WriteOnlyPort_address(self) == self.address

\* Mutant of WriteOnlyPort_write: issues the output instruction twice.
WriteOnlyPort_write_Twice(self, value, hw) ==
    PortWrite_write(self.ty, WriteOnlyPort_address(self), value,
        PortWrite_write(self.ty, WriteOnlyPort_address(self), value, hw).hw)

WriteOnlyPort_write(self, value, hw) ==
    PortWrite_write(self.ty, WriteOnlyPort_address(self), value, hw)

(* ReadWritePort *)

ReadWritePort_new(ty, address) ==
    [shape |-> "ReadWritePort", ty |-> ty, address |-> address,
     marker |-> "PhantomData"]

ReadWritePort_address(self) == self.address

ReadWritePort_read(self, hw) ==
    PortRead_read(self.ty, ReadWritePort_address(self), hw)

\* Mutant of ReadWritePort_write: drives the value onto every port.
ReadWritePort_write_Broadcast(self, value, hw) ==
    LET r == PortWrite_write(self.ty, ReadWritePort_address(self), value, hw)
    IN  [value |-> r.value,
         hw |-> [ports |-> [b \in DOMAIN hw.ports |-> value],
                 log |-> r.hw.log]]

ReadWritePort_write(self, value, hw) ==
    PortWrite_write(self.ty, ReadWritePort_address(self), value, hw)

(* derive(Clone, Eq, PartialEq): field by field *)

\* Mutant of Port_clone: the clone does not keep the address.
Port_clone_Reset(self) ==
    [shape |-> self.shape, ty |-> self.ty, address |-> 0,
     marker |-> self.marker]

Port_clone(self) ==
    [shape |-> self.shape, ty |-> self.ty, address |-> self.address,
     marker |-> self.marker]

\* Mutant of Port_eq: compares the markers only.
Port_eq_MarkerOnly(self, other) == self.marker = other.marker

\* Only two values of one type (same shape, same T) can be compared.
Port_eq(self, other) ==
    self.address = other.address /\ self.marker = other.marker

(* Method resolution on the wrapper's type *)

Port_new(shape, ty, address) ==
    CASE shape = "ReadOnlyPort"  -> ReadOnlyPort_new(ty, address)
      [] shape = "WriteOnlyPort" -> WriteOnlyPort_new(ty, address)
      [] OTHER                   -> ReadWritePort_new(ty, address)

Port_address(self) ==
    CASE self.shape = "ReadOnlyPort"  -> ReadOnlyPort_address(self)
      [] self.shape = "WriteOnlyPort" -> WriteOnlyPort_address(self)
      [] OTHER                        -> ReadWritePort_address(self)

Port_read(self, hw) ==
    CASE self.shape = "ReadOnlyPort" -> ReadOnlyPort_read(self, hw)
      [] OTHER                       -> ReadWritePort_read(self, hw)

Port_write(self, value, hw) ==
    CASE self.shape = "WriteOnlyPort" -> WriteOnlyPort_write(self, value, hw)
      [] OTHER                        -> ReadWritePort_write(self, value, hw)

----------------------------------------------------------------------------
(* The state machine *)

Hw == [ports |-> ports, log |-> log]

\* Slots are filled in order: slot s names the s-th wrapper value created.
Free(s) ==
    /\ wrappers[s] = NoPort
    /\ \A r \in Slots : r < s => wrappers[r] # NoPort

Init ==
    /\ wrappers = [s \in Slots |-> NoPort]
    /\ ports \in [Addrs -> PowerOn]
    /\ log = << >>
    /\ calls = << >>
    /\ given = [s \in Slots |-> NoAddr]
    /\ cloneOf = [s \in Slots |-> 0]
    /\ ret = [op |-> "init", slot |-> 0, value |-> 0]

\* Mutant of New: the constructor probes the port with one read.
New_Probing(s, shape, ty, address) ==
    /\ Free(s)
    /\ TraitBound(shape, ty)
    /\ wrappers' = [wrappers EXCEPT ![s] = Port_new(shape, ty, address)]
    /\ given' = [given EXCEPT ![s] = address]
    /\ ret' = [op |-> "new", slot |-> s, value |-> 0]
    /\ log' = PortRead_read(ty, address, Hw).hw.log
    /\ UNCHANGED <<ports, calls, cloneOf>>

\* let p = unsafe { Shape::<ty>::new(address) };
New(s, shape, ty, address) ==
    /\ Free(s)
    /\ TraitBound(shape, ty)
    /\ wrappers' = [wrappers EXCEPT ![s] = Port_new(shape, ty, address)]
    /\ given' = [given EXCEPT ![s] = address]
    /\ ret' = [op |-> "new", slot |-> s, value |-> 0]
    /\ UNCHANGED <<ports, log, calls, cloneOf>>

\* let q = p.clone();
Clone(s, from) ==
    /\ Free(s)
    /\ wrappers[from] # NoPort
    /\ wrappers' = [wrappers EXCEPT ![s] = Port_clone(wrappers[from])]
    /\ given' = [given EXCEPT ![s] = given[from]]
    /\ cloneOf' = [cloneOf EXCEPT ![s] = from]
    /\ ret' = [op |-> "clone", slot |-> s, value |-> 0]
    /\ UNCHANGED <<ports, log, calls>>

\* p.address()
Address(s) ==
    /\ wrappers[s] # NoPort
    /\ "address" \in Exposes(wrappers[s].shape)
    /\ ret' = [op |-> "address", slot |-> s, value |-> Port_address(wrappers[s])]
    /\ UNCHANGED <<wrappers, ports, log, calls, given, cloneOf>>

\* p.read()
Read(s) ==
    /\ wrappers[s] # NoPort
    /\ "read" \in Exposes(wrappers[s].shape)
    /\ Len(calls) < MaxCalls
    /\ LET r == Port_read(wrappers[s], Hw)
       IN  /\ ports' = r.hw.ports
           /\ log' = r.hw.log
           /\ ret' = [op |-> "read", slot |-> s, value |-> r.value]
           /\ calls' = Append(calls, [op |-> "read", slot |-> s,
                                      value |-> r.value])
    /\ UNCHANGED <<wrappers, given, cloneOf>>

\* p.write(value)
Write(s, value) ==
    /\ wrappers[s] # NoPort
    /\ "write" \in Exposes(wrappers[s].shape)
    /\ value \in Values(wrappers[s].ty)
    /\ Len(calls) < MaxCalls
    /\ LET r == Port_write(wrappers[s], value, Hw)
       IN  /\ ports' = r.hw.ports
           /\ log' = r.hw.log
           /\ ret' = [op |-> "write", slot |-> s, value |-> 0]
           /\ calls' = Append(calls, [op |-> "write", slot |-> s,
                                      value |-> value])
    /\ UNCHANGED <<wrappers, given, cloneOf>>

AllValues == UNION {Values(ty) : ty \in Types}

Next ==
    \/ \E s \in Slots, shape \in Shapes, ty \in Types, a \in Addrs :
          New(s, shape, ty, a)
    \/ \E s \in Slots, from \in Slots : Clone(s, from)
    \/ \E s \in Slots : Address(s)
    \/ \E s \in Slots : Read(s)
    \/ \E s \in Slots, v \in AllValues : Write(s, v)

Spec == Init /\ [][Next]_vars

----------------------------------------------------------------------------
(* Properties *)

Present(s) == wrappers[s] # NoPort

CallIdx == 1 .. Len(calls)

\* The address and the type of the wrapper that made call i.
CallAddr(i) == given[calls[i].slot]
CallTy(i) == wrappers[calls[i].slot].ty
CallShape(i) == wrappers[calls[i].slot].shape

\* Index of the last primitive write at address a in the log, 0 if none.
LastWrite(a) ==
    LET W == {i \in 1 .. Len(log) : log[i].kind = "write" /\ log[i].address = a}
    IN  IF W = {} THEN 0 ELSE CHOOSE i \in W : \A j \in W : j <= i

\* C1: for each of the three shapes, address() returns the address passed
\* to new(), and still does after any reads and writes through the wrapper:
\* no operation changes the stored address.
C1_AddressIsGiven ==
    /\ \A s \in Slots : Present(s) => Port_address(wrappers[s]) = given[s]
    /\ ret.op = "address" => ret.value = given[ret.slot]

\* C1 witness: address() called on a read-write wrapper after a read and a
\* write went through it.
C1_Witness ==
    /\ ret.op = "address"
    /\ wrappers[ret.slot].shape = "ReadWritePort"
    /\ cloneOf[ret.slot] = 0
    /\ \E i, j \in CallIdx :
          /\ calls[i].slot = ret.slot /\ calls[i].op = "read"
          /\ calls[j].slot = ret.slot /\ calls[j].op = "write"

\* C2: every read()/write(v) call issues exactly one primitive access of the
\* same kind at the wrapper's address (a write carrying exactly v), in call
\* order: n calls leave n log entries in that order, and the port holds the
\* value of the last write issued to it.
C2_OneIssuePerCall ==
    /\ Len(log) = Len(calls)
    /\ \A i \in CallIdx :
          i <= Len(log) =>
            /\ log[i].kind = calls[i].op
            /\ log[i].address = CallAddr(i)
            /\ log[i].ty = CallTy(i)
            /\ log[i].value = calls[i].value
    /\ \A a \in Addrs : LastWrite(a) # 0 => ports[a] = log[LastWrite(a)].value

\* C2 witness: write(1) then write(2) through one write-only wrapper; two
\* primitive writes in that order, the port holds 2.
C2_Witness ==
    /\ Len(calls) = 2
    /\ calls[1].op = "write" /\ calls[1].value = 1
    /\ calls[2].op = "write" /\ calls[2].value = 2
    /\ calls[1].slot = calls[2].slot
    /\ CallShape(1) = "WriteOnlyPort"
    /\ Len(log) = 2
    /\ log[1].kind = "write" /\ log[1].value = 1
    /\ log[2].kind = "write" /\ log[2].value = 2
    /\ ports[CallAddr(1)] = 2

\* C3: a write of v at address a, then a read of a through another,
\* independently constructed wrapper of the same width, with no write to a
\* in between, returns v; one primitive write and one primitive read were
\* issued for the two calls.
C3_WriteThenRead ==
    \A i, j \in CallIdx :
        ( /\ i < j
          /\ calls[i].op = "write" /\ calls[j].op = "read"
          /\ calls[i].slot # calls[j].slot
          /\ cloneOf[calls[i].slot] # calls[j].slot
          /\ cloneOf[calls[j].slot] # calls[i].slot
          /\ CallAddr(i) = CallAddr(j)
          /\ Bits(CallTy(i)) = Bits(CallTy(j))
          /\ \A k \in CallIdx :
                (i < k /\ k < j /\ calls[k].op = "write")
                    => CallAddr(k) # CallAddr(i) )
        => /\ calls[j].value = calls[i].value
           /\ Len(log) = Len(calls)
           /\ log[i].kind = "write" /\ log[j].kind = "read"

\* C3 witness: write 0x41 to 0x3F8 through a WriteOnlyPort<u8>, then read
\* 0x3F8 through a ReadOnlyPort<u8>: 0x41.
C3_Witness ==
    /\ Len(calls) = 2 /\ Len(log) = 2
    /\ calls[1] = [op |-> "write", slot |-> 1, value |-> 65]
    /\ calls[2] = [op |-> "read", slot |-> 2, value |-> 65]
    /\ wrappers[1] = WriteOnlyPort_new("u8", 1016)
    /\ wrappers[2] = ReadOnlyPort_new("u8", 1016)
    /\ cloneOf[2] = 0

\* C4: the operations of a wrapper are fixed by its shape for its lifetime:
\* nothing done through a ReadOnlyPort issues a primitive write, nothing
\* done through a WriteOnlyPort issues a primitive read.
C4_ShapeFixesOps ==
    /\ [](\A i \in CallIdx :
            i <= Len(log) =>
              /\ log[i].kind = "write" => CallShape(i) # "ReadOnlyPort"
              /\ log[i].kind = "read" => CallShape(i) # "WriteOnlyPort")
    /\ [][\A s \in Slots :
            Present(s) => wrappers'[s].shape = wrappers[s].shape]_vars

\* C4 witness: a read through a read-only wrapper and a write through a
\* write-only wrapper have both happened.
C4_Witness ==
    \E i, j \in CallIdx :
        /\ calls[i].op = "read" /\ CallShape(i) = "ReadOnlyPort"
        /\ calls[j].op = "write" /\ CallShape(j) = "WriteOnlyPort"

C6_EqIsAddressEq ==
    \A s, r \in Slots :
        ( /\ Present(s) /\ Present(r)
          /\ wrappers[s].shape = wrappers[r].shape
          /\ wrappers[s].ty = wrappers[r].ty )
        => (Port_eq(wrappers[s], wrappers[r]) <=> given[s] = given[r])

\* C6 witness: two independently constructed wrappers of one shape and type
\* at different addresses, one of them used.
C6_Witness ==
    /\ Present(1) /\ Present(2) /\ cloneOf[2] = 0
    /\ wrappers[1].shape = wrappers[2].shape
    /\ wrappers[1].ty = wrappers[2].ty
    /\ given[1] # given[2]
    /\ ~Port_eq(wrappers[1], wrappers[2])
    /\ Len(calls) >= 2

\* C7: a clone is equal to the original and has the same address; cloning
\* issues no primitive access and leaves the original unchanged.
C7_CloneEqualsOriginal ==
    /\ [](\A s \in Slots :
            cloneOf[s] # 0 =>
              /\ Port_eq(wrappers[s], wrappers[cloneOf[s]])
              /\ Port_address(wrappers[s]) = Port_address(wrappers[cloneOf[s]])
              /\ wrappers[s].shape = wrappers[cloneOf[s]].shape
              /\ wrappers[s].ty = wrappers[cloneOf[s]].ty)
    /\ [][cloneOf' # cloneOf =>
            /\ log' = log /\ ports' = ports /\ calls' = calls
            /\ \A s \in Slots : Present(s) => wrappers'[s] = wrappers[s]]_vars

\* C7 witness: a clone of a wrapper that had already been used, itself used.
C7_Witness ==
    /\ cloneOf[2] = 1
    /\ Len(calls) >= 2
    /\ calls[1].slot = 1
    /\ calls[Len(calls)].slot = 2

\* C8: new(address) accesses no hardware and validates nothing: it
\* succeeds for every address, issues no primitive read or write, and
\* leaves every port as it was; address() is pure as well.
C8_NewIsPure ==
    /\ [][(wrappers' # wrappers /\ cloneOf' = cloneOf) =>
            (log' = log /\ ports' = ports /\ calls' = calls)]_vars
    /\ [][(ret'.op = "address" /\ ret' # ret) =>
            UNCHANGED <<wrappers, ports, log, calls, given, cloneOf>>]_vars
    /\ [](\A s \in Slots, shape \in Shapes, ty \in Types, a \in Addrs :
            (Free(s) /\ TraitBound(shape, ty)) => ENABLED New(s, shape, ty, a))

\* C8 witness: a wrapper constructed after ports had been written.
C8_Witness ==
    /\ ret.op = "new" /\ ret.slot = 2
    /\ Len(log) >= 1
    /\ \E a \in Addrs : ports[a] \notin PowerOn

\* The 8-, 16- and 32-bit unsigned integer types.
FixedWidths == {t \in Types : Unsigned(t) /\ Bits(t) \in {8, 16, 32}}

\* C9: the usable value types are closed: exactly the 8-, 16- and 32-bit
\* unsigned integers are readable and writable (and so read-write).
C9_ClosedTypeSet ==
    /\ {t \in Types : t \in ImplPortRead} = FixedWidths
    /\ {t \in Types : t \in ImplPortWrite} = FixedWidths
    /\ {t \in Types : t \in ImplPortReadWrite} = FixedWidths
    /\ \A shape \in Shapes :
          {t \in Types : TraitBound(shape, t)} = FixedWidths
    /\ \A s \in Slots : Present(s) => wrappers[s].ty \in FixedWidths

\* C9 witness: wrappers over two of the three widths are in use.
C9_Witness ==
    /\ Present(1) /\ Present(2)
    /\ wrappers[1].ty = "u32" /\ wrappers[2].ty = "u8"
    /\ Len(calls) >= 1

\* C10: an operation touches only the port at the wrapper's address: a
\* write at a leaves every port b # a as it was; a read changes no port and
\* no wrapper, and returns the port's current value (nothing is cached).
C10_OnlyOwnPort ==
    [][Len(calls') = Len(calls) + 1 =>
        LET c == calls'[Len(calls')]
            a == given[c.slot]
        IN  /\ wrappers' = wrappers
            /\ c.op = "write" =>
                  \A b \in Addrs \ {a} : ports'[b] = ports[b]
            /\ c.op = "read" =>
                  /\ ports' = ports
                  /\ c.value = Latch(wrappers[c.slot].ty, ports[a])]_vars

\* C10 witness: after a write at one address, a read at the other address
\* returns that other port's own value.
C10_Witness ==
    /\ Len(calls) >= 2
    /\ calls[Len(calls)].op = "read"
    /\ calls[Len(calls) - 1].op = "write"
    /\ CallAddr(Len(calls)) # CallAddr(Len(calls) - 1)
    /\ ports[CallAddr(Len(calls))] # ports[CallAddr(Len(calls) - 1)]
    /\ calls[Len(calls)].value = ports[CallAddr(Len(calls))]

====
